---- MODULE Spec2Model ----
(***************************************************************************)
(* State-machine model of the artillery-duel simulation engine of          *)
(* src/src/components/GameArena.tsx ("arena" implementation) and of its    *)
(* near-duplicate src/unnamed/part_000 ("burst" implementation).           *)
(*                                                                         *)
(* Numbers.  The program computes in IEEE doubles.  The model computes in  *)
(* fixed point: every length, height and velocity is an integer number of  *)
(* tenths of a unit (Scale), so 0.8 is 8 and 500 is 5000.  Health, damage, *)
(* radii, wind, power, angle and tick counts are plain integers.  Square   *)
(* roots are never rounded where a comparison or a floor decides a result  *)
(* (distances are compared by their squares); the only rounded quantities  *)
(* are the eroded depth (rounded up to the next tenth) and the trigonometry*)
(* of the launch velocity.                                                 *)
(***************************************************************************)
EXTENDS Integers, Sequences, FiniteSets, TLC

\* ------------------------------------------------------------------ bounds
\* accepted fire commands explored per run
MaxFires == 3
\* movement commands (move, jump) explored per run of the full match, and
\* move-left commands explored per walk
MaxMoves == 1

\* --------------------------------------------------------- program constants
Scale == 10
MaxHealth == 100
MovementPoints == 60
ArenaFloor == 500
DefaultHeight == 400
TerrainLen == 200

Teams == {"vegan", "meatLover"}
Phases == {"setup", "movement", "aiming", "firing", "gameOver"}
Impls == {"arena", "burst"}

\* ------------------------------------------------------------------ helpers
Max(a, b) == IF a >= b THEN a ELSE b
Min(a, b) == IF a <= b THEN a ELSE b
Abs(a) == IF a < 0 THEN -a ELSE a
\* division rounding toward zero (the fixed-point image of a double product)
TDiv(a, b) == IF a >= 0 THEN a \div b ELSE -((-a) \div b)

RECURSIVE SqrtSearch(_, _, _)
SqrtSearch(n, lo, hi) ==
  IF lo >= hi THEN lo
  ELSE LET mid == (lo + hi + 1) \div 2
       IN IF mid * mid <= n THEN SqrtSearch(n, mid, hi)
                            ELSE SqrtSearch(n, lo, mid - 1)
\* floor of the square root
ISqrt(n) == SqrtSearch(n, 0, 46340)

\* ------------------------------------------------------------ weapon catalog
\* VEGAN_WEAPONS and MEAT_WEAPONS are the same list; find() returns the first.
Weapons ==
  [ bazooka  |-> [damage |-> 45, explosionRadius |-> 30, fuseTime |-> 0],
    grenade  |-> [damage |-> 50, explosionRadius |-> 35, fuseTime |-> 180],
    shotgun  |-> [damage |-> 25, explosionRadius |-> 15, fuseTime |-> 0],
    uzi      |-> [damage |-> 15, explosionRadius |-> 10, fuseTime |-> 0],
    dynamite |-> [damage |-> 75, explosionRadius |-> 50, fuseTime |-> 300],
    drill    |-> [damage |-> 20, explosionRadius |-> 60, fuseTime |-> 0] ]

WeaponIds == DOMAIN Weapons

\* weapon ? weapon.explosionRadius || weapon.damage : 30
WeaponRadius(type) ==
  IF type \in WeaponIds
    THEN (IF Weapons[type].explosionRadius # 0 THEN Weapons[type].explosionRadius
                                               ELSE Weapons[type].damage)
    ELSE 30

\* weapon?.damage || 30
WeaponDamage(type) ==
  IF type \in WeaponIds /\ Weapons[type].damage # 0 THEN Weapons[type].damage ELSE 30

\* weapon?.fuseTime || 0
WeaponFuse(type) == IF type \in WeaponIds THEN Weapons[type].fuseTime ELSE 0

\* F(v), the value v being computed once however often F refers to it
Given(v, F(_)) == CHOOSE r \in {F(x) : x \in {v}} : TRUE

\* ------------------------------------------------------------------ terrain
\* The deterministic part of initializeGame's height, in tenths, for
\* x = 0, 5, ..., 995:  350 - sin(.008x)*80 - sin(.02x)*40 - sin(.05x)*20
\*                          - sin(.003x)*120 + cos(.012x)*60
BaseProfile == <<
    4100, 3960, 3820, 3686, 3559, 3443, 3338, 3247, 3168, 3102,
    3048, 3003, 2966, 2933, 2901, 2869, 2833, 2791, 2741, 2683,
    2617, 2542, 2461, 2375, 2286, 2197, 2111, 2031, 1960, 1900,
    1852, 1819, 1800, 1795, 1803, 1823, 1851, 1885, 1923, 1959,
    1992, 2018, 2035, 2040, 2033, 2013, 1981, 1937, 1883, 1822,
    1757, 1691, 1627, 1568, 1517, 1476, 1448, 1432, 1430, 1441,
    1463, 1496, 1536, 1581, 1629, 1676, 1720, 1758, 1790, 1814,
    1829, 1837, 1838, 1834, 1828, 1823, 1820, 1824, 1838, 1863,
    1902, 1957, 2027, 2114, 2215, 2329, 2454, 2586, 2723, 2861,
    2997, 3126, 3246, 3354, 3449, 3530, 3595, 3647, 3685, 3711,
    3729, 3739, 3746, 3752, 3759, 3769, 3784, 3804, 3830, 3861,
    3895, 3931, 3967, 3999, 4024, 4040, 4045, 4035, 4009, 3966,
    3906, 3829, 3736, 3630, 3514, 3390, 3262, 3133, 3008, 2889,
    2780, 2682, 2597, 2527, 2471, 2428, 2397, 2376, 2362, 2354,
    2347, 2339, 2328, 2312, 2290, 2260, 2222, 2178, 2129, 2076,
    2023, 1971, 1925, 1886, 1857, 1840, 1838, 1850, 1877, 1918,
    1972, 2036, 2108, 2185, 2263, 2340, 2411, 2473, 2525, 2565,
    2591, 2603, 2601, 2588, 2564, 2533, 2497, 2459, 2423, 2391,
    2366, 2350, 2345, 2351, 2369, 2397, 2434, 2479, 2528, 2580,
    2630, 2677, 2718, 2752, 2776, 2789, 2793, 2787, 2774, 2755 >>

\* terrainPoints.push(Math.max(finalHeight, 200)), the noise term being n
\* tenths on every sample (the program draws it per sample in [-5, 5))
GenerateTerrain(n) ==
  [i \in 0 .. TerrainLen - 1 |-> Max(BaseProfile[i + 1] + n, 200 * Scale)]

\* terrain[Math.floor(x / 5)] || 400
getTerrainHeight(x, terr) ==
  LET index == x \div (5 * Scale)
  IN IF index \in DOMAIN terr /\ terr[index] # 0 THEN terr[index]
     ELSE DefaultHeight * Scale

\* squared distance (in squared tenths) between two points
Dist2(x1, y1, x2, y2) == (x1 - x2) * (x1 - x2) + (y1 - y2) * (y1 - y2)

\* (1 - distance / radius) * radius, in tenths, for distance < radius
ErosionBase(d2, radius) == radius * Scale - ISqrt(d2)

\* destroyTerrain of GameArena.tsx
destroyTerrainArena(terr, x, y, radius, weaponType) ==
  [i \in DOMAIN terr |->
    LET terrainX == i * 5 * Scale
        d2 == Dist2(terrainX, terr[i], x, y)
    IN IF d2 < radius * radius * Scale * Scale
         THEN LET base == ErosionBase(d2, radius)
                  \* drill: * 2, and * 1.5 more within 15 units of the centre
                  amount == IF weaponType = "drill"
                              THEN (IF Abs(terrainX - x) < 15 * Scale
                                      THEN base * 3 ELSE base * 2)
                              ELSE base
              IN Max(terr[i] + amount, ArenaFloor * Scale)
         ELSE terr[i]]

\* destroyTerrain of part_000 with the erosion subtracted instead of added
destroyTerrainBurstRaise(terr, x, y, radius, weaponType) ==
  [i \in DOMAIN terr |->
    LET terrainX == i * 5 * Scale
        d2 == Dist2(terrainX, terr[i], x, y)
    IN IF d2 < radius * radius * Scale * Scale
         THEN Min(terr[i] - (ErosionBase(d2, radius) * 25) \div 10, ArenaFloor * Scale)
         ELSE terr[i]]

\* destroyTerrain of part_000
destroyTerrainBurst(terr, x, y, radius, weaponType) ==
  [i \in DOMAIN terr |->
    LET terrainX == i * 5 * Scale
        d2 == Dist2(terrainX, terr[i], x, y)
    IN IF d2 < radius * radius * Scale * Scale
         THEN LET base == ErosionBase(d2, radius)
                  \* drill: * 4, and * 2 more within 20 units; grenade: * 1.8
                  drillF == IF weaponType = "drill"
                              THEN (IF Abs(terrainX - x) < 20 * Scale THEN 8 ELSE 4)
                              ELSE 1
                  grenF == IF weaponType = "grenade" THEN 18 ELSE 10
                  \* * 2.5, then the weapon multipliers
                  amount == (base * 25 * drillF * grenF) \div 100
              IN Min(terr[i] + amount, ArenaFloor * Scale)
         ELSE terr[i]]

destroyTerrain(im, terr, x, y, radius, weaponType) ==
  IF im = "arena" THEN destroyTerrainArena(terr, x, y, radius, weaponType)
                  ELSE destroyTerrainBurst(terr, x, y, radius, weaponType)

\* ------------------------------------------------------------------- damage
\* the falloff rounded to the nearest integer instead of down
ActualDamageRounded(d2, damage, radius) ==
  (2 * damage * (radius * Scale - ISqrt(d2)) + radius * Scale) \div (2 * radius * Scale)

\* applyDamage on one character without the Math.max(0, ...)
applyDamageCharNoFloor(char, explosionX, explosionY, damage, radius) ==
  IF char.health <= 0 THEN char
  ELSE LET d2 == Dist2(char.x, char.y, explosionX, explosionY)
       IN IF d2 < radius * radius * Scale * Scale
            THEN [char EXCEPT !.health = @ - (damage * (radius * Scale - ISqrt(d2)))
                                                 \div (radius * Scale)]
            ELSE char

\* Math.floor(damage * (1 - distance / radius)) for distance < radius: the
\* largest k with damage * distance <= radius * (damage - k), compared by squares
ActualDamage(d2, damage, radius) ==
  LET fits(k) == damage * damage * d2
                   <= radius * radius * Scale * Scale * (damage - k) * (damage - k)
  IN CHOOSE k \in 0 .. damage :
       fits(k) /\ \A j \in (k + 1) .. damage : ~fits(j)

applyDamageChar(char, explosionX, explosionY, damage, radius) ==
  IF char.health <= 0 THEN char
  ELSE LET d2 == Dist2(char.x, char.y, explosionX, explosionY)
       IN IF d2 < radius * radius * Scale * Scale
            THEN [char EXCEPT !.health =
                    Max(0, char.health - ActualDamage(d2, damage, radius))]
            ELSE char

applyDamage(chars, explosionX, explosionY, damage, radius) ==
  [i \in DOMAIN chars |->
     applyDamageChar(chars[i], explosionX, explosionY, damage, radius)]

\* ------------------------------------------------------- character gravity
\* the fall damage without its cap of 80
FallDamageUncapped(f) ==
  IF f > 50 * Scale THEN (f - 50 * Scale) \div (10 * Scale) ELSE 0

\* fall damage of a landing with accumulated fall distance f (tenths)
FallDamage(f) ==
  IF f > 50 * Scale THEN Min((f - 50 * Scale) \div (10 * Scale), 80) ELSE 0

\* updateCharacterGravity's character step without the branch that puts a
\* character standing at or below ground level back on the ground
gravityCharNoSnap(char, terr) ==
  IF char.health <= 0 THEN char
  ELSE LET groundLevel == getTerrainHeight(char.x, terr) - 20 * Scale
           newVy == char.vy + 8
           newY == char.y + newVy
           newFallDistance == char.fallDistance + Abs(newVy)
       IN IF char.y < groundLevel
            THEN IF newY >= groundLevel
                   THEN [char EXCEPT !.y = groundLevel, !.vy = 0,
                                     !.isGrounded = TRUE, !.fallDistance = 0,
                                     !.health = Max(0, char.health
                                                        - FallDamage(newFallDistance))]
                   ELSE [char EXCEPT !.y = newY, !.vy = newVy,
                                     !.isGrounded = FALSE,
                                     !.fallDistance = newFallDistance]
            ELSE char

gravityChar(char, terr) ==
  IF char.health <= 0 THEN char
  ELSE LET groundLevel == getTerrainHeight(char.x, terr) - 20 * Scale
           newVy == char.vy + 8
           newY == char.y + newVy
           newFallDistance == char.fallDistance + Abs(newVy)
       IN IF char.y < groundLevel
            THEN IF newY >= groundLevel
                   THEN [char EXCEPT !.y = groundLevel, !.vy = 0,
                                     !.isGrounded = TRUE, !.fallDistance = 0,
                                     !.health = Max(0, char.health
                                                        - FallDamage(newFallDistance))]
                   ELSE [char EXCEPT !.y = newY, !.vy = newVy,
                                     !.isGrounded = FALSE,
                                     !.fallDistance = newFallDistance]
            ELSE [char EXCEPT !.y = groundLevel, !.vy = 0,
                              !.isGrounded = TRUE, !.fallDistance = 0]

updateCharacterGravity(chars, terr) ==
  [i \in DOMAIN chars |-> gravityChar(chars[i], terr)]

\* ---------------------------------------------------------------- collision
checkCollision(proj, terr, chars) ==
  \/ proj.x < 0 \/ proj.x > 1000 * Scale \/ proj.y > 500 * Scale
  \/ proj.y >= getTerrainHeight(proj.x, terr) - 5 * Scale
  \/ \E i \in DOMAIN chars :
       /\ chars[i].health > 0
       /\ Dist2(proj.x, proj.y, chars[i].x, chars[i].y) < 20 * 20 * Scale * Scale

\* createExplosion: the particles all start with the same life; the model keeps
\* the explosion with the largest remaining particle life
createExplosion(im, x, y, weaponType) ==
  [x |-> x, y |-> y, radius |-> WeaponRadius(weaponType),
   life |-> IF im = "arena" THEN (IF weaponType = "drill" THEN 60 ELSE 30)
                            ELSE (IF weaponType = "drill" THEN 90 ELSE 60)]

\* -------------------------------------------------------------------- state
VARIABLES
  impl,            \* which of the two source files is running
  characters,      \* gameState.characters: function 0..5 -> Character, <<>> in setup
  currentPlayer,   \* gameState.currentPlayer
  currentTeam,     \* gameState.currentTeam (the winner once gamePhase is gameOver)
  wind,            \* gameState.wind
  gamePhase,       \* gameState.gamePhase
  selectedWeapon,  \* gameState.selectedWeapon
  power,           \* gameState.power
  angle,           \* gameState.angle
  projectiles,     \* gameState.projectiles: sequence of Projectile
  terrain,         \* gameState.terrain: function 0..199 -> height, <<>> in setup
  explosions,      \* gameState.explosions: sequence of Explosion
  turnTimer,       \* ticks until the pending turn-advance timeout runs, -1: none
  burstQueue,      \* pending deferred uzi spawns: sequence of [due, proj]
  fires,           \* accepted fire commands so far
  moves,           \* accepted move commands so far
  lefts,           \* accepted move-left commands so far
  jumps,           \* accepted jump commands so far
  calls            \* direct calls of a function made so far (function-level runs)

gameVars == <<characters, currentPlayer, currentTeam, wind, gamePhase,
              selectedWeapon, power, angle, projectiles, terrain, explosions>>
timerVars == <<turnTimer, burstQueue>>
countVars == <<fires, moves, lefts, jumps, calls>>
vars == <<impl, gameVars, timerVars, countVars>>

\* ------------------------------------------------------------------- inputs
\* noise of the generated terrain, in tenths, the same on every sample
NoiseLevels == {0}
\* values of Math.random() * 20 - 10
Winds == {10}
\* the weapon buttons explored
SelectableWeapons == {"dynamite", "grenade", "uzi"}
\* the slider positions explored
Powers == {40, 50}
Angles == {45, 270}
\* the aims <<weapon, power, angle>> from which a shot is explored: dynamite
\* straight down, and a grenade and an uzi lobbed at the initial power and angle
Shots == {<<"dynamite", 40, 270>>, <<"grenade", 50, 45>>, <<"uzi", 50, 45>>}

\* cos and sin of the angle (degrees), in thousandths
CosMilli(a) ==
  CASE a = 0 -> 1000 [] a = 45 -> 707 [] a = 90 -> 0 [] a = 135 -> -707
    [] a = 180 -> -1000 [] a = 225 -> -707 [] a = 270 -> 0 [] a = 315 -> 707
    [] a = 360 -> 1000
SinMilli(a) ==
  CASE a = 0 -> 0 [] a = 45 -> 707 [] a = 90 -> 1000 [] a = 135 -> 707
    [] a = 180 -> 0 [] a = 225 -> -707 [] a = 270 -> -1000 [] a = 315 -> -707
    [] a = 360 -> 0

\* Math.cos(angle) * (power / 100) * 25 and -Math.sin(angle) * (power / 100) * 25
LaunchVx(pw, a) == TDiv(CosMilli(a) * pw * 25 * Scale, 1000 * 100)
LaunchVy(pw, a) == TDiv(-SinMilli(a) * pw * 25 * Scale, 1000 * 100)

\* prev.wind * 0.02
WindAccel(w) == TDiv(w * 2 * Scale, 100)

NewCharacter(team, x, terr) ==
  [team |-> team, x |-> x, y |-> getTerrainHeight(x, terr) - 20 * Scale,
   health |-> MaxHealth, vy |-> 0, isGrounded |-> TRUE, fallDistance |-> 0,
   movementLeft |-> MovementPoints, hasJumped |-> FALSE]

SpawnX == [i \in 0 .. 5 |-> CASE i = 0 -> 150 [] i = 1 -> 250 [] i = 2 -> 350
                              [] i = 3 -> 650 [] i = 4 -> 750 [] i = 5 -> 850]
SpawnTeam == [i \in 0 .. 5 |-> IF i < 3 THEN "vegan" ELSE "meatLover"]

\* the living characters, whatever their team
AliveAnyTeam(chars, team) == {i \in DOMAIN chars : chars[i].health > 0}

Alive(chars, team) == {i \in DOMAIN chars : chars[i].health > 0 /\ chars[i].team = team}
HasCurrentChar == currentPlayer \in DOMAIN characters
CurrentChar == characters[currentPlayer]

\* ------------------------------------------------------------ initial state
\* useState<GameState>({...}) of the component
Init ==
  /\ impl \in Impls
  /\ characters = <<>>
  /\ currentPlayer = 0
  /\ currentTeam = "vegan"
  /\ wind = 0
  /\ gamePhase = "setup"
  /\ selectedWeapon = "bazooka"
  /\ power = 50
  /\ angle = 45
  /\ projectiles = <<>>
  /\ terrain = <<>>
  /\ explosions = <<>>
  /\ turnTimer = -1
  /\ burstQueue = <<>>
  /\ fires = 0 /\ moves = 0 /\ lefts = 0 /\ jumps = 0 /\ calls = 0

\* ------------------------------------------------------------------ actions
\* initializeGame: run by the mount effect (phase setup) and by the Play Again
\* button, which is rendered only while the phase is gameOver
initializeGame ==
  /\ gamePhase \in {"setup", "gameOver"}
  /\ \E n \in NoiseLevels, w \in Winds :
       LET terrainPoints == GenerateTerrain(n)
       IN /\ terrain' = terrainPoints
          /\ characters' = [i \in 0 .. 5 |->
                              NewCharacter(SpawnTeam[i], SpawnX[i] * Scale, terrainPoints)]
          /\ wind' = w
  /\ gamePhase' = "movement"
  /\ UNCHANGED <<impl, currentPlayer, currentTeam, selectedWeapon, power, angle,
                 projectiles, explosions, timerVars, countVars>>

\* moveCharacter with a move against the border that costs no movement point
moveCharacterFreeAtBorder(direction) ==
  IF ~HasCurrentChar \/ gamePhase # "movement" \/ CurrentChar.movementLeft <= 0
    THEN UNCHANGED vars
    ELSE LET newX == IF direction = "left"
                       THEN Max(20 * Scale, CurrentChar.x - 5 * Scale)
                       ELSE Min(980 * Scale, CurrentChar.x + 5 * Scale)
             newY == getTerrainHeight(newX, terrain) - 20 * Scale
         IN /\ characters' = [characters EXCEPT ![currentPlayer] =
                                [@ EXCEPT !.x = newX, !.y = newY,
                                          !.movementLeft =
                                            IF newX = CurrentChar.x THEN @ ELSE @ - 1]]
            /\ moves' = moves + 1
            /\ lefts' = IF direction = "left" THEN lefts + 1 ELSE lefts
            /\ UNCHANGED <<impl, currentPlayer, currentTeam, wind, gamePhase,
                           selectedWeapon, power, angle, projectiles, terrain,
                           explosions, timerVars, fires, jumps, calls>>

\* moveCharacter(direction), reached from the a/d keys and the Left/Right buttons
moveCharacter(direction) ==
  IF ~HasCurrentChar \/ gamePhase # "movement" \/ CurrentChar.movementLeft <= 0
    THEN UNCHANGED vars
    ELSE LET newX == IF direction = "left"
                       THEN Max(20 * Scale, CurrentChar.x - 5 * Scale)
                       ELSE Min(980 * Scale, CurrentChar.x + 5 * Scale)
             newY == getTerrainHeight(newX, terrain) - 20 * Scale
         IN /\ characters' = [characters EXCEPT ![currentPlayer] =
                                [@ EXCEPT !.x = newX, !.y = newY,
                                          !.movementLeft = @ - 1]]
            /\ moves' = moves + 1
            /\ lefts' = IF direction = "left" THEN lefts + 1 ELSE lefts
            /\ UNCHANGED <<impl, currentPlayer, currentTeam, wind, gamePhase,
                           selectedWeapon, power, angle, projectiles, terrain,
                           explosions, timerVars, fires, jumps, calls>>

\* jumpCharacter without the hasJumped test
jumpCharacterAgain ==
  IF ~HasCurrentChar \/ gamePhase # "movement" \/ ~CurrentChar.isGrounded
    THEN UNCHANGED vars
    ELSE /\ characters' = [characters EXCEPT ![currentPlayer] =
                             [@ EXCEPT !.vy = -12 * Scale, !.isGrounded = FALSE,
                                       !.hasJumped = TRUE, !.fallDistance = 0]]
         /\ jumps' = jumps + 1
         /\ UNCHANGED <<impl, currentPlayer, currentTeam, wind, gamePhase,
                        selectedWeapon, power, angle, projectiles, terrain,
                        explosions, timerVars, fires, moves, lefts, calls>>

\* jumpCharacter, reached from the w/space keys and the Jump button
jumpCharacter ==
  IF ~HasCurrentChar \/ gamePhase # "movement" \/ CurrentChar.hasJumped
       \/ ~CurrentChar.isGrounded
    THEN UNCHANGED vars
    ELSE /\ characters' = [characters EXCEPT ![currentPlayer] =
                             [@ EXCEPT !.vy = -12 * Scale, !.isGrounded = FALSE,
                                       !.hasJumped = TRUE, !.fallDistance = 0]]
         /\ jumps' = jumps + 1
         /\ UNCHANGED <<impl, currentPlayer, currentTeam, wind, gamePhase,
                        selectedWeapon, power, angle, projectiles, terrain,
                        explosions, timerVars, fires, moves, lefts, calls>>

\* the endMovement command, accepted on the victory screen too
endMovementPhaseAfterGameOver ==
  IF gamePhase \notin {"movement", "gameOver"}
    THEN UNCHANGED vars
    ELSE /\ gamePhase' = "aiming"
         /\ UNCHANGED <<impl, characters, currentPlayer, currentTeam, wind,
                        selectedWeapon, power, angle, projectiles, terrain,
                        explosions, timerVars, countVars>>

\* the endMovement command: handleKeyPress returns before endMovementPhase
\* unless the phase is movement, and the End Movement button exists only then
endMovementPhase ==
  IF gamePhase # "movement"
    THEN UNCHANGED vars
    ELSE /\ gamePhase' = "aiming"
         /\ UNCHANGED <<impl, characters, currentPlayer, currentTeam, wind,
                        selectedWeapon, power, angle, projectiles, terrain,
                        explosions, timerVars, countVars>>

\* the weapon buttons (rendered in every phase)
selectWeapon(id) ==
  /\ selectedWeapon' = id
  /\ UNCHANGED <<impl, characters, currentPlayer, currentTeam, wind, gamePhase,
                 power, angle, projectiles, terrain, explosions, timerVars, countVars>>

\* the power slider (rendered while aiming)
setPower(value) ==
  /\ gamePhase = "aiming"
  /\ power' = value
  /\ UNCHANGED <<impl, characters, currentPlayer, currentTeam, wind, gamePhase,
                 selectedWeapon, angle, projectiles, terrain, explosions,
                 timerVars, countVars>>

\* the angle slider (rendered while aiming)
setAngle(value) ==
  /\ gamePhase = "aiming"
  /\ angle' = value
  /\ UNCHANGED <<impl, characters, currentPlayer, currentTeam, wind, gamePhase,
                 selectedWeapon, power, projectiles, terrain, explosions,
                 timerVars, countVars>>

\* ------------------------------------------------------------- projectiles
NewProjectile(char, type, vx, vy) ==
  [x |-> char.x, y |-> char.y - 10 * Scale, vx |-> vx, vy |-> vy, type |-> type,
   team |-> char.team, active |-> TRUE, bounces |-> 0, fuseTime |-> WeaponFuse(type)]

\* a bounce that turns the velocity round but leaves the grenade where the move
\* has put it
GrenadeBounceNoClamp(p, terr) ==
  LET side == p.x <= 0 \/ p.x >= 1000 * Scale
      vx1 == IF side THEN TDiv(-p.vx * 4, 10) ELSE p.vx
      top == p.y <= 0
      vy1 == IF top THEN TDiv(-p.vy * 4, 10) ELSE p.vy
      terrainHeight == getTerrainHeight(p.x, terr)
      ground == p.y >= terrainHeight - 5 * Scale
  IN [p EXCEPT !.vx = IF ground THEN TDiv(vx1 * 6, 10) ELSE vx1,
               !.vy = IF ground THEN TDiv(-Abs(vy1) * 4, 10) ELSE vy1]

\* the bounce part of the grenade branch, applied to the moved grenade
GrenadeBounce(p, terr) ==
  LET side == p.x <= 0 \/ p.x >= 1000 * Scale
      vx1 == IF side THEN TDiv(-p.vx * 4, 10) ELSE p.vx
      x1 == IF side THEN (IF p.x <= 0 THEN 0 ELSE 1000 * Scale) ELSE p.x
      top == p.y <= 0
      vy1 == IF top THEN TDiv(-p.vy * 4, 10) ELSE p.vy
      y1 == IF top THEN 0 ELSE p.y
      terrainHeight == getTerrainHeight(x1, terr)
      ground == y1 >= terrainHeight - 5 * Scale
  IN [p EXCEPT !.x = x1,
               !.y = IF ground THEN terrainHeight - 5 * Scale ELSE y1,
               !.vx = IF ground THEN TDiv(vx1 * 6, 10) ELSE vx1,
               !.vy = IF ground THEN TDiv(-Abs(vy1) * 4, 10) ELSE vy1]

\* the velocity and position update of the grenade branch (position from the
\* updated velocity)
GrenadeMove(p, w) ==
  LET vx1 == p.vx + WindAccel(w)
      vy1 == p.vy + 5
  IN [p EXCEPT !.vx = vx1, !.vy = vy1, !.x = p.x + vx1, !.y = p.y + vy1]

\* the GameArena.tsx step with the fuse tested before it is decremented
StepProjArenaLateFuse(p, w, terr, chars) ==
  IF p.type = "grenade"
    THEN IF p.fuseTime <= 0
           THEN [proj |-> [p EXCEPT !.active = FALSE], det |-> TRUE]
           ELSE [proj |-> [GrenadeBounce(GrenadeMove(p, w), terr)
                             EXCEPT !.fuseTime = p.fuseTime - 1],
                 det |-> FALSE]
    ELSE LET q == [p EXCEPT !.vx = p.vx + WindAccel(w), !.vy = p.vy + 5,
                            !.x = p.x + p.vx, !.y = p.y + p.vy]
             hit == checkCollision(q, terr, chars)
             off == q.x < -50 * Scale \/ q.x > 1050 * Scale \/ q.y > 550 * Scale
         IN [proj |-> [q EXCEPT !.active = ~(hit \/ off)], det |-> hit]

\* the GameArena.tsx step with a grenade that also goes off on a collision
StepProjArenaImpact(p, w, terr, chars) ==
  IF p.type = "grenade"
    THEN LET q == GrenadeBounce(GrenadeMove(p, w), terr)
             fuse == p.fuseTime - 1
         IN IF fuse <= 0 \/ checkCollision(q, terr, chars)
              THEN [proj |-> [q EXCEPT !.fuseTime = fuse, !.active = FALSE], det |-> TRUE]
              ELSE [proj |-> [q EXCEPT !.fuseTime = fuse], det |-> FALSE]
    ELSE LET q == [p EXCEPT !.vx = p.vx + WindAccel(w), !.vy = p.vy + 5,
                            !.x = p.x + p.vx, !.y = p.y + p.vy]
             hit == checkCollision(q, terr, chars)
             off == q.x < -50 * Scale \/ q.x > 1050 * Scale \/ q.y > 550 * Scale
         IN [proj |-> [q EXCEPT !.active = ~(hit \/ off)], det |-> hit]

\* One projectile of updateProjectiles in GameArena.tsx: [proj, det], det telling
\* whether it detonated (explosion, erosion and damage at proj's position)
StepProjArena(p, w, terr, chars) ==
  IF p.type = "grenade"
    THEN LET q == GrenadeBounce(GrenadeMove(p, w), terr)
             fuse == p.fuseTime - 1
         IN IF fuse <= 0
              THEN [proj |-> [q EXCEPT !.fuseTime = fuse, !.active = FALSE], det |-> TRUE]
              ELSE [proj |-> [q EXCEPT !.fuseTime = fuse], det |-> FALSE]
    ELSE LET q == [p EXCEPT !.vx = p.vx + WindAccel(w), !.vy = p.vy + 5,
                            !.x = p.x + p.vx, !.y = p.y + p.vy]
             hit == checkCollision(q, terr, chars)
             off == q.x < -50 * Scale \/ q.x > 1050 * Scale \/ q.y > 550 * Scale
         IN [proj |-> [q EXCEPT !.active = ~(hit \/ off)], det |-> hit]

\* One projectile of updateProjectiles in part_000
StepProjBurst(p, w, terr, chars) ==
  IF p.type = "grenade"
    THEN IF p.fuseTime <= 0
           THEN [proj |-> [p EXCEPT !.active = FALSE], det |-> TRUE]
           ELSE [proj |-> [GrenadeBounce(GrenadeMove(p, w), terr)
                             EXCEPT !.fuseTime = p.fuseTime - 1],
                 det |-> FALSE]
    ELSE StepProjArena(p, w, terr, chars)

StepProj(im, p, w, terr, chars) ==
  IF im = "arena" THEN StepProjArena(p, w, terr, chars)
                  ELSE StepProjBurst(p, w, terr, chars)

\* explosion particles: life - 1, dead particles and empty explosions dropped
AgeExplosions(expl) ==
  SelectSeq([i \in 1 .. Len(expl) |-> [expl[i] EXCEPT !.life = @ - 1]],
            LAMBDA e : e.life > 0)

\* The rest of updateProjectiles once every projectile has been stepped.
\* destroyTerrain and applyDamage read the rendered gameState (st here), not the
\* values already computed in this call, so the last detonation of a call
\* decides the terrain and the characters.
ResolveDetonations(im, st, stepped, dets) ==
  LET n == Len(st.projectiles)
      last == CHOOSE i \in dets : \A j \in dets : j <= i
      newTerrain == IF dets = {} THEN st.terrain
                    ELSE destroyTerrain(im, st.terrain, stepped[last].proj.x,
                                        stepped[last].proj.y,
                                        WeaponRadius(stepped[last].proj.type),
                                        stepped[last].proj.type)
      newCharacters == IF dets = {} THEN st.characters
                       ELSE applyDamage(st.characters, stepped[last].proj.x,
                                        stepped[last].proj.y,
                                        WeaponDamage(stepped[last].proj.type),
                                        WeaponRadius(stepped[last].proj.type))
      detSeq == SelectSeq([i \in 1 .. n |-> i], LAMBDA i : i \in dets)
      newExplosions ==
        st.explosions \o
          [k \in 1 .. Len(detSeq) |->
             createExplosion(im, stepped[detSeq[k]].proj.x, stepped[detSeq[k]].proj.y,
                             stepped[detSeq[k]].proj.type)]
  IN [st EXCEPT
        !.projectiles = SelectSeq([i \in 1 .. n |-> stepped[i].proj],
                                  LAMBDA p : p.active),
        !.explosions = AgeExplosions(newExplosions),
        !.terrain = newTerrain,
        !.characters =
          Given(newTerrain,
                LAMBDA t : Given(newCharacters,
                                 LAMBDA c : updateCharacterGravity(c, t)))]

DetonatedIn(stepped) == {i \in DOMAIN stepped : stepped[i].det}

ResolveStepped(im, st, stepped) ==
  ResolveDetonations(im, st, stepped, DetonatedIn(stepped))

\* updateProjectiles: the state record after one call
updateProjectiles(im, st) ==
  Given([i \in 1 .. Len(st.projectiles) |->
           StepProj(im, st.projectiles[i], st.wind, st.terrain, st.characters)],
        LAMBDA stepped : ResolveStepped(im, st, stepped))

\* the separate setGameState of gameLoop
gravityUpdate(st) ==
  [st EXCEPT !.characters = updateCharacterGravity(st.characters, st.terrain)]

\* a gameLoop that never queues its own gravity update
GravityNever(runGravity, st) == st

GravityIf(runGravity, st) == IF runGravity THEN gravityUpdate(st) ELSE st

\* gameLoop, one interval tick: both conditions are read from the rendered
\* state, the two updaters run one after the other
gameLoopState(im, st, phase) ==
  LET runProjectiles ==
        IF im = "arena" THEN phase = "firing" /\ Len(st.projectiles) > 0
                        ELSE \E i \in 1 .. Len(st.projectiles) : st.projectiles[i].active
      runGravity == \E i \in DOMAIN st.characters :
                      ~st.characters[i].isGrounded /\ st.characters[i].health > 0
  IN Given(IF runProjectiles THEN updateProjectiles(im, st) ELSE st,
           LAMBDA s : GravityIf(runGravity, s))

CurrentState ==
  [projectiles |-> projectiles, explosions |-> explosions, terrain |-> terrain,
   characters |-> characters, wind |-> wind]

\* A timeout that is due runs before the next interval tick.
TimeoutDue ==
  \/ turnTimer = 0
  \/ Len(burstQueue) > 0 /\ burstQueue[1].due = 0

\* the step to the state record s computed by gameLoop.  When the tick changes
\* nothing and no deferred spawn is pending, nothing happens until the
\* turn-advance timeout: these idle ticks are taken in one step.
TickTo(s) ==
  /\ projectiles' = s.projectiles
  /\ explosions' = s.explosions
  /\ terrain' = s.terrain
  /\ characters' = s.characters
  /\ turnTimer' = IF turnTimer <= 0 THEN turnTimer
                  ELSE IF s = CurrentState /\ burstQueue = <<>> THEN 0
                  ELSE turnTimer - 1
  /\ burstQueue' = [i \in 1 .. Len(burstQueue) |->
                      [burstQueue[i] EXCEPT !.due = @ - 1]]
  /\ UNCHANGED <<impl, currentPlayer, currentTeam, wind, gamePhase, selectedWeapon,
                 power, angle, countVars>>

\* one interval tick (gameLoop)
Tick ==
  /\ ~TimeoutDue
  /\ \E s \in {gameLoopState(impl, CurrentState, gamePhase)} : TickTo(s)

\* setTimeout delays in interval ticks (1000 / 60 ms each)
TicksOf(ms) == (ms * 60) \div 1000

\* fireWeapon without the phase test
fireWeaponAnyPhase ==
  IF ~HasCurrentChar
    THEN UNCHANGED vars
    ELSE /\ projectiles' = Append(projectiles,
                                  NewProjectile(CurrentChar, selectedWeapon,
                                                LaunchVx(power, angle),
                                                LaunchVy(power, angle)))
         /\ gamePhase' = "firing"
         /\ turnTimer' = TicksOf(3000)
         /\ fires' = fires + 1
         /\ UNCHANGED <<impl, characters, currentPlayer, currentTeam, wind,
                        selectedWeapon, power, angle, terrain, explosions,
                        burstQueue, moves, lefts, jumps, calls>>

\* fireWeapon without the setTimeout of the turn-advance
fireWeaponNoTimeout ==
  IF ~HasCurrentChar \/ gamePhase # "aiming"
    THEN UNCHANGED vars
    ELSE /\ projectiles' = Append(projectiles,
                                  NewProjectile(CurrentChar, selectedWeapon,
                                                LaunchVx(power, angle),
                                                LaunchVy(power, angle)))
         /\ gamePhase' = "firing"
         /\ fires' = fires + 1
         /\ UNCHANGED <<impl, characters, currentPlayer, currentTeam, wind,
                        selectedWeapon, power, angle, terrain, explosions,
                        timerVars, moves, lefts, jumps, calls>>

\* fireWeapon, reached from the Fire button.  In part_000 the uzi queues five
\* deferred spawns (index * 80 ms); the random spread of a burst round is taken
\* at its midpoint (no angular, power or position deviation).
fireWeapon ==
  IF ~HasCurrentChar \/ gamePhase # "aiming"
    THEN UNCHANGED vars
    ELSE LET projectile == NewProjectile(CurrentChar, selectedWeapon,
                                         LaunchVx(power, angle), LaunchVy(power, angle))
             burst == impl = "burst" /\ selectedWeapon = "uzi"
         IN /\ projectiles' = IF burst THEN projectiles
                                       ELSE Append(projectiles, projectile)
            /\ burstQueue' = IF burst
                               THEN [i \in 1 .. 5 |->
                                       [due |-> TicksOf((i - 1) * 80), proj |-> projectile]]
                               ELSE burstQueue
            /\ gamePhase' = "firing"
            /\ turnTimer' = IF burst THEN TicksOf(4000) ELSE TicksOf(3000)
            /\ fires' = fires + 1
            /\ UNCHANGED <<impl, characters, currentPlayer, currentTeam, wind,
                           selectedWeapon, power, angle, terrain, explosions,
                           moves, lefts, jumps, calls>>

\* a deferred uzi spawn that adds its round twice
burstSpawnTwice ==
  /\ Len(burstQueue) > 0
  /\ burstQueue[1].due = 0
  /\ projectiles' = Append(Append(projectiles, burstQueue[1].proj), burstQueue[1].proj)
  /\ burstQueue' = Tail(burstQueue)
  /\ UNCHANGED <<impl, characters, currentPlayer, currentTeam, wind, gamePhase,
                 selectedWeapon, power, angle, terrain, explosions, turnTimer,
                 countVars>>

\* one deferred uzi spawn of part_000
burstSpawn ==
  /\ Len(burstQueue) > 0
  /\ burstQueue[1].due = 0
  /\ projectiles' = Append(projectiles, burstQueue[1].proj)
  /\ burstQueue' = Tail(burstQueue)
  /\ UNCHANGED <<impl, characters, currentPlayer, currentTeam, wind, gamePhase,
                 selectedWeapon, power, angle, terrain, explosions, turnTimer,
                 countVars>>

\* the turn-advance callback without its while loop
NextAliveNoSkip(chars, index) == index

\* the while loop of the turn-advance callback
RECURSIVE NextAlive(_, _)
NextAlive(chars, index) ==
  IF chars[index].health <= 0
    THEN NextAlive(chars, (index + 1) % Cardinality(DOMAIN chars))
    ELSE index

\* the turn-advance callback scheduled by fireWeapon
turnAdvance ==
  /\ turnTimer = 0
  /\ turnTimer' = -1
  /\ IF Alive(characters, "vegan") = {}
       THEN /\ gamePhase' = "gameOver"
            /\ currentTeam' = "meatLover"
            /\ UNCHANGED <<characters, currentPlayer, wind>>
       ELSE IF Alive(characters, "meatLover") = {}
         THEN /\ gamePhase' = "gameOver"
              /\ currentTeam' = "vegan"
              /\ UNCHANGED <<characters, currentPlayer, wind>>
         ELSE LET nextPlayerIndex ==
                    NextAlive(characters,
                              (currentPlayer + 1) % Cardinality(DOMAIN characters))
              IN /\ currentPlayer' = nextPlayerIndex
                 /\ currentTeam' = characters[nextPlayerIndex].team
                 /\ gamePhase' = "movement"
                 /\ \E w \in Winds : wind' = w
                 /\ characters' = [i \in DOMAIN characters |->
                                     [characters[i] EXCEPT
                                        !.movementLeft = MovementPoints,
                                        !.hasJumped = FALSE]]
  /\ UNCHANGED <<impl, selectedWeapon, power, angle, projectiles, terrain,
                 explosions, burstQueue, countVars>>

\* ------------------------------------------------------------ specification
\* Timeouts are counted in interval ticks at the nominal 60 per second.
\*
\* The full match.  Movement commands and accepted fires are explored up to their
\* bounds, shots from the aims in Shots; weapon changes are explored while aiming
\* and after game over.
Next ==
  \/ initializeGame
  \/ (moves + jumps < MaxMoves /\ \E d \in {"left", "right"} : moveCharacter(d))
  \/ (moves + jumps < MaxMoves /\ jumpCharacter)
  \/ endMovementPhase
  \/ (gamePhase \in {"aiming", "gameOver"} /\ \E w \in SelectableWeapons : selectWeapon(w))
  \/ (\E p \in Powers : setPower(p))
  \/ (\E a \in Angles : setAngle(a))
  \/ ((fires < MaxFires \/ gamePhase # "aiming")
        /\ <<selectedWeapon, power, angle>> \in Shots /\ fireWeapon)
  \/ burstSpawn
  \/ turnAdvance
  \/ Tick

Spec == Init /\ [][Next]_vars

\* The first turn up to the shot: the whole movement budget, every jump, and the
\* commands that the phase or the budget makes invalid.
NextWalk ==
  \/ initializeGame
  \/ (\E d \in {"left", "right"} :
        (d = "left" => lefts < MaxMoves) /\ moveCharacter(d))
  \/ jumpCharacter
  \/ endMovementPhase
  \/ (gamePhase # "aiming" /\ fireWeapon)
  \/ Tick

SpecWalk == Init /\ [][NextWalk]_vars

\* A later turn of a match: the characters in Casualties have been killed, the
\* actor is a living character at the start of its turn, unhurt or wounded, and
\* the aim is the one left by the turn before.
MaxTurnFires == 1

Casualties == {{}, {1}, {1, 2}, {4, 5}, {1, 2, 5}, {1, 2, 4, 5}, {1, 2, 3, 4}}
Actors == {0, 3, 5}
ActorHealths == {20, 100}

InitTurn ==
  /\ impl \in Impls
  /\ terrain = GenerateTerrain(0)
  /\ currentPlayer \in Actors
  /\ \E dead \in Casualties, h \in ActorHealths :
       /\ currentPlayer \notin dead
       /\ characters =
            [i \in 0 .. 5 |->
               [NewCharacter(SpawnTeam[i], SpawnX[i] * Scale, GenerateTerrain(0))
                  EXCEPT !.health = IF i \in dead THEN 0
                                    ELSE IF i = currentPlayer THEN h ELSE MaxHealth]]
  /\ currentTeam = characters[currentPlayer].team
  /\ wind \in Winds
  /\ gamePhase = "movement"
  /\ \E shot \in Shots :
       selectedWeapon = shot[1] /\ power = shot[2] /\ angle = shot[3]
  /\ projectiles = <<>>
  /\ explosions = <<>>
  /\ turnTimer = -1
  /\ burstQueue = <<>>
  /\ fires = 0 /\ moves = 0 /\ lefts = 0 /\ jumps = 0 /\ calls = 0

NextTurn ==
  \/ (moves < MaxMoves /\ \E d \in {"left", "right"} : moveCharacter(d))
  \/ endMovementPhase
  \/ ((fires < MaxTurnFires \/ gamePhase # "aiming") /\ fireWeapon)
  \/ burstSpawn
  \/ turnAdvance
  \/ Tick

SpecTurn == InitTurn /\ [][NextTurn]_vars

\* The timers alone: the interval of gameLoop keeps ticking and every scheduled
\* timeout runs when it is due; no command is ever required of the players.
TimerFairness ==
  /\ WF_vars(Tick)
  /\ WF_vars(turnAdvance)
  /\ WF_vars(burstSpawn)

\* One shot and what the timers make of it: character 0 has ended its movement,
\* fires one of Shots, and the turn passes to the next character.
MaxShotFires == 1

InitShot ==
  /\ impl \in Impls
  /\ terrain = GenerateTerrain(0)
  /\ characters = [i \in 0 .. 5 |->
                     NewCharacter(SpawnTeam[i], SpawnX[i] * Scale, GenerateTerrain(0))]
  /\ currentPlayer = 0
  /\ currentTeam = "vegan"
  /\ wind \in Winds
  /\ gamePhase = "aiming"
  /\ \E shot \in Shots :
       selectedWeapon = shot[1] /\ power = shot[2] /\ angle = shot[3]
  /\ projectiles = <<>>
  /\ explosions = <<>>
  /\ turnTimer = -1
  /\ burstQueue = <<>>
  /\ fires = 0 /\ moves = 0 /\ lefts = 0 /\ jumps = 0 /\ calls = 0

NextShot ==
  \/ endMovementPhase
  \/ ((fires < MaxShotFires \/ gamePhase # "aiming") /\ fireWeapon)
  \/ burstSpawn
  \/ turnAdvance
  \/ Tick

SpecShot == InitShot /\ [][NextShot]_vars /\ TimerFairness

SpecWalkFair == SpecWalk /\ TimerFairness

\* The last two: characters 0 (vegan) and 3 (meat lover) are the only survivors,
\* unhurt or wounded; character 3 has walked over to character 0 in earlier
\* turns and stands 20 or 100 to its right.  Character 0 is to act, with the
\* dynamite laid at its feet or a grenade lobbed beside character 3; once the
\* match is over, Play Again starts the next one.
MaxDuelFires == 1

DuelHealths == {20, 100}
DuelXs == {170, 250}
DuelShots == {<<"dynamite", 40, 270>>, <<"grenade", 5, 90>>}

InitDuel ==
  /\ impl \in Impls
  /\ terrain = GenerateTerrain(0)
  /\ \E h0 \in DuelHealths, h3 \in DuelHealths, x3 \in DuelXs :
       characters =
         [i \in 0 .. 5 |->
            [NewCharacter(SpawnTeam[i], (IF i = 3 THEN x3 ELSE SpawnX[i]) * Scale,
                          GenerateTerrain(0))
               EXCEPT !.health = IF i = 0 THEN h0 ELSE IF i = 3 THEN h3 ELSE 0]]
  /\ currentPlayer = 0
  /\ currentTeam = "vegan"
  /\ wind \in Winds
  /\ gamePhase = "movement"
  /\ \E shot \in DuelShots :
       selectedWeapon = shot[1] /\ power = shot[2] /\ angle = shot[3]
  /\ projectiles = <<>>
  /\ explosions = <<>>
  /\ turnTimer = -1
  /\ burstQueue = <<>>
  /\ fires = 0 /\ moves = 0 /\ lefts = 0 /\ jumps = 0 /\ calls = 0

NextDuel ==
  \/ initializeGame
  \/ endMovementPhase
  \/ ((fires < MaxDuelFires \/ gamePhase # "aiming") /\ fireWeapon)
  \/ turnAdvance
  \/ Tick

SpecDuel == InitDuel /\ [][NextDuel]_vars

SpecDuelFair == SpecDuel /\ TimerFairness

\* At the border: a later turn in which the actor, character 0 or character 5,
\* has in earlier turns walked to the left or the right border of the arena, or
\* to one step from it, and starts its movement phase there.
MaxBorderMoves == 3

BorderActors == {0, 5}
BorderXs == {20, 25, 975, 980}

InitBorder ==
  /\ impl \in Impls
  /\ terrain = GenerateTerrain(0)
  /\ currentPlayer \in BorderActors
  /\ \E x \in BorderXs :
       characters =
         [i \in 0 .. 5 |->
            NewCharacter(SpawnTeam[i],
                         (IF i = currentPlayer THEN x ELSE SpawnX[i]) * Scale,
                         GenerateTerrain(0))]
  /\ currentTeam = characters[currentPlayer].team
  /\ wind \in Winds
  /\ gamePhase = "movement"
  /\ selectedWeapon = "bazooka"
  /\ power = 50
  /\ angle = 45
  /\ projectiles = <<>>
  /\ explosions = <<>>
  /\ turnTimer = -1
  /\ burstQueue = <<>>
  /\ fires = 0 /\ moves = 0 /\ lefts = 0 /\ jumps = 0 /\ calls = 0

NextBorder ==
  \/ (moves < MaxBorderMoves /\ \E d \in {"left", "right"} : moveCharacter(d))
  \/ jumpCharacter
  \/ endMovementPhase
  \/ Tick

SpecBorder == InitBorder /\ [][NextBorder]_vars

\* ------------------------------------------------- function-level runs
\* The state right after initializeGame, with terrain noise n.
Started(n) ==
  /\ impl \in Impls
  /\ terrain = GenerateTerrain(n)
  /\ currentPlayer = 0
  /\ currentTeam = "vegan"
  /\ wind \in Winds
  /\ gamePhase = "movement"
  /\ selectedWeapon = "bazooka"
  /\ power = 50
  /\ angle = 45
  /\ projectiles = <<>>
  /\ explosions = <<>>
  /\ turnTimer = -1
  /\ burstQueue = <<>>
  /\ fires = 0 /\ moves = 0 /\ lefts = 0 /\ jumps = 0 /\ calls = 0

\* destroyTerrain called on its own: detonations, each of any weapon, centred
\* over a column of ErodeXs at the height where a projectile meets the ground
\* (5 above it) or where a character stands (20 above it).
MaxErosions == 2

ErodeNoise == {-50, 0, 50}
ErodeXs == {1500, 2080}
ErodeLifts == {5, 20}

InitErode ==
  \E n \in ErodeNoise :
    /\ Started(n)
    /\ characters = [i \in 0 .. 5 |->
                       NewCharacter(SpawnTeam[i], SpawnX[i] * Scale, GenerateTerrain(n))]

callDestroyTerrain(x, y, weaponType) ==
  /\ calls < MaxErosions
  /\ terrain' = destroyTerrain(impl, terrain, x, y, WeaponRadius(weaponType), weaponType)
  /\ calls' = calls + 1
  /\ UNCHANGED <<impl, characters, currentPlayer, currentTeam, wind, gamePhase,
                 selectedWeapon, power, angle, projectiles, explosions, timerVars,
                 fires, moves, lefts, jumps>>

NextErode ==
  \E x \in ErodeXs, lift \in ErodeLifts, w \in WeaponIds :
    callDestroyTerrain(x, getTerrainHeight(x, terrain) - lift * Scale, w)

SpecErode == InitErode /\ [][NextErode]_vars

\* applyDamage called on its own: character 1 has walked next to character 0,
\* both with a health of BlastHealths; detonations, each of any weapon, centred
\* at the height of character 0 and BlastOffsets (tenths) to its right.
MaxBlasts == 2

BlastHealths == {0, 10, 100}
BlastOffsets == {0, 70, 150, 340, 600}
NeighbourX == SpawnX[0] * Scale + 250

InitBlast ==
  /\ Started(0)
  /\ \E h0 \in BlastHealths, h1 \in BlastHealths :
       characters =
         [i \in 0 .. 5 |->
            [NewCharacter(SpawnTeam[i], IF i = 1 THEN NeighbourX ELSE SpawnX[i] * Scale,
                          GenerateTerrain(0))
               EXCEPT !.health = IF i = 0 THEN h0 ELSE IF i = 1 THEN h1 ELSE MaxHealth]]

callApplyDamage(x, y, weaponType) ==
  /\ calls < MaxBlasts
  /\ characters' = applyDamage(characters, x, y, WeaponDamage(weaponType),
                               WeaponRadius(weaponType))
  /\ calls' = calls + 1
  /\ UNCHANGED <<impl, currentPlayer, currentTeam, wind, gamePhase, selectedWeapon,
                 power, angle, projectiles, terrain, explosions, timerVars,
                 fires, moves, lefts, jumps>>

NextBlast ==
  \E dx \in BlastOffsets, w \in WeaponIds :
    callApplyDamage(characters[0].x + dx, characters[0].y, w)

SpecBlast == InitBlast /\ [][NextBlast]_vars

\* updateCharacterGravity called on its own: character 0 is in the air, FallDrops
\* (tenths) above its ground, with a speed of FallSpeeds, an accumulated fall
\* distance of FallStarts and a health of FallHealths.
MaxFalls == 5

FallDrops == {5, 100}
FallSpeeds == {0, 92}
FallStarts == {0, 400, 492, 500, 592, 1500, 8400, 8492, 9900}
FallHealths == {5, 50, 100}

InitFall ==
  /\ Started(0)
  /\ \E drop \in FallDrops, v \in FallSpeeds, f \in FallStarts, h \in FallHealths :
       characters =
         [i \in 0 .. 5 |->
            LET char == NewCharacter(SpawnTeam[i], SpawnX[i] * Scale, GenerateTerrain(0))
            IN IF i = 0
                 THEN [char EXCEPT !.y = @ - drop, !.vy = v, !.isGrounded = FALSE,
                                   !.fallDistance = f, !.health = h]
                 ELSE char]

callUpdateCharacterGravity ==
  /\ calls < MaxFalls
  /\ characters' = updateCharacterGravity(characters, terrain)
  /\ calls' = calls + 1
  /\ UNCHANGED <<impl, currentPlayer, currentTeam, wind, gamePhase, selectedWeapon,
                 power, angle, projectiles, terrain, explosions, timerVars,
                 fires, moves, lefts, jumps>>

NextFall == callUpdateCharacterGravity

SpecFall == InitFall /\ [][NextFall]_vars

\* A turn in which character 0 lobs a grenade that comes to rest beside the next
\* character in turn (character 1, unhurt or wounded), followed by that
\* character's turn.
MaxLobFires == 2

LobHealths == {20, 100}
LobPowers == {5, 20}
LobAngles == {45, 90}

InitLob ==
  /\ impl \in Impls
  /\ terrain = GenerateTerrain(0)
  /\ \E h \in LobHealths :
       characters =
         [i \in 0 .. 5 |->
            [NewCharacter(SpawnTeam[i], SpawnX[i] * Scale, GenerateTerrain(0))
               EXCEPT !.health = IF i = 1 THEN h ELSE MaxHealth]]
  /\ currentPlayer = 0
  /\ currentTeam = "vegan"
  /\ wind \in Winds
  /\ gamePhase = "movement"
  /\ selectedWeapon = "grenade"
  /\ power \in LobPowers
  /\ angle \in LobAngles
  /\ projectiles = <<>>
  /\ explosions = <<>>
  /\ turnTimer = -1
  /\ burstQueue = <<>>
  /\ fires = 0 /\ moves = 0 /\ lefts = 0 /\ jumps = 0 /\ calls = 0

NextLob ==
  \/ (moves + jumps < MaxMoves /\ \E d \in {"left", "right"} : moveCharacter(d))
  \/ (moves + jumps < MaxMoves /\ jumpCharacter)
  \/ endMovementPhase
  \/ ((fires < MaxLobFires \/ gamePhase # "aiming") /\ fireWeapon)
  \/ turnAdvance
  \/ Tick

SpecLob == InitLob /\ [][NextLob]_vars

\* updateProjectiles called on its own, as gameLoop calls it while a fire is
\* being resolved: one projectile in flight over the column of character 0, over
\* the middle of the arena or next to the right border, just above the ground or
\* high in the air.  A grenade has any part of its fuse left (in part_000 down
\* to 0, the fuse being tested before it is decremented).
MaxSteps == 3

StepTypes == {"bazooka", "dynamite", "grenade"}
StepXs == {1500, 5000, 9950}
StepLifts == {100, 3000}
StepVxs == {88, 600}
StepVys == {-88, 100}
StepFuses == {0, 1, 2, 180}

InitStep ==
  /\ impl \in Impls
  /\ terrain = GenerateTerrain(0)
  /\ characters = [i \in 0 .. 5 |->
                     NewCharacter(SpawnTeam[i], SpawnX[i] * Scale, GenerateTerrain(0))]
  /\ currentPlayer = 0
  /\ currentTeam = "vegan"
  /\ wind \in Winds
  /\ gamePhase = "firing"
  /\ selectedWeapon \in StepTypes
  /\ power = 50
  /\ angle = 45
  /\ \E x \in StepXs, lift \in StepLifts, vx \in StepVxs, vy \in StepVys,
        fuse \in IF selectedWeapon # "grenade" THEN {WeaponFuse(selectedWeapon)}
                 ELSE IF impl = "arena" THEN StepFuses \ {0} ELSE StepFuses :
       projectiles =
         <<[NewProjectile(characters[0], selectedWeapon, vx, vy)
              EXCEPT !.x = x,
                     !.y = getTerrainHeight(x, GenerateTerrain(0)) - lift,
                     !.fuseTime = fuse]>>
  /\ explosions = <<>>
  /\ turnTimer = -1
  /\ burstQueue = <<>>
  /\ fires = 0 /\ moves = 0 /\ lefts = 0 /\ jumps = 0 /\ calls = 0

StepTo(s) ==
  /\ projectiles' = s.projectiles
  /\ explosions' = s.explosions
  /\ terrain' = s.terrain
  /\ characters' = s.characters
  /\ calls' = calls + 1
  /\ UNCHANGED <<impl, currentPlayer, currentTeam, wind, gamePhase, selectedWeapon,
                 power, angle, timerVars, fires, moves, lefts, jumps>>

callUpdateProjectiles ==
  /\ calls < MaxSteps
  /\ Len(projectiles) > 0
  /\ StepTo(updateProjectiles(impl, CurrentState))

NextStep == callUpdateProjectiles

SpecStep == InitStep /\ [][NextStep]_vars

\* updateProjectiles called with two projectiles in flight, as gameLoop of
\* part_000 calls it during an uzi burst: two rounds of the burst, whose random
\* spread has brought them side by side, fly level towards character 1 (unhurt
\* or wounded) and are each one update, or several, away from it.
PairHealths == {20, 100}
PairXs == {2390, 2420, 2000}
PairLifts == {0, 30}
PairVxs == {60}

InitPair ==
  /\ impl = "burst"
  /\ terrain = GenerateTerrain(0)
  /\ \E h \in PairHealths :
       characters =
         [i \in 0 .. 5 |->
            [NewCharacter(SpawnTeam[i], SpawnX[i] * Scale, GenerateTerrain(0))
               EXCEPT !.health = IF i = 1 THEN h ELSE MaxHealth]]
  /\ currentPlayer = 0
  /\ currentTeam = "vegan"
  /\ wind \in Winds
  /\ gamePhase = "firing"
  /\ selectedWeapon = "uzi"
  /\ power = 50
  /\ angle = 45
  /\ \E x1 \in PairXs, x2 \in PairXs, l1 \in PairLifts, l2 \in PairLifts,
        vx \in PairVxs :
       projectiles =
         <<[NewProjectile(characters[0], "uzi", vx, 0)
              EXCEPT !.x = x1, !.y = characters[1].y - l1],
           [NewProjectile(characters[0], "uzi", vx, 0)
              EXCEPT !.x = x2, !.y = characters[1].y - l2]>>
  /\ explosions = <<>>
  /\ turnTimer = -1
  /\ burstQueue = <<>>
  /\ fires = 0 /\ moves = 0 /\ lefts = 0 /\ jumps = 0 /\ calls = 0

NextPair == callUpdateProjectiles

SpecPair == InitPair /\ [][NextPair]_vars

\* Detonations and the interval alone: a projectile of any of SinkWeapons has
\* been stepped by updateProjectiles to a column of SinkXs, at the height where
\* it meets the ground (5 above it), and detonates there, whether characters are
\* still falling from an earlier detonation or not; the rest of that call
\* erodes the terrain, applies the blast and the first gravity step, and
\* gameLoop goes on ticking.  Character 0 is unhurt or wounded.
MaxSinks == 2

SinkHealths == {20, 100}
SinkXs == {1500, 2450}
SinkLifts == {5}
SinkWeapons == {"grenade", "dynamite"}

InitSink ==
  /\ Started(0)
  /\ \E h \in SinkHealths :
       characters =
         [i \in 0 .. 5 |->
            [NewCharacter(SpawnTeam[i], SpawnX[i] * Scale, GenerateTerrain(0))
               EXCEPT !.health = IF i = 0 THEN h ELSE MaxHealth]]

\* the part of updateProjectiles that follows the detonation of one projectile
detonate(x, y, weaponType) ==
  /\ calls < MaxSinks
  /\ StepTo(ResolveDetonations(
              impl,
              [CurrentState EXCEPT
                 !.projectiles = <<NewProjectile(CurrentChar, weaponType, 0, 0)>>],
              <<[proj |-> [NewProjectile(CurrentChar, weaponType, 0, 0)
                             EXCEPT !.x = x, !.y = y, !.active = FALSE],
                 det |-> TRUE]>>,
              {1}))

NextSink ==
  \/ \E x \in SinkXs, lift \in SinkLifts, w \in SinkWeapons :
       detonate(x, getTerrainHeight(x, terrain) - lift * Scale, w)
  \/ Tick

SpecSink == InitSink /\ [][NextSink]_vars /\ WF_vars(Tick)

\* updateProjectiles called on a grenade in flight, under any of BounceWinds:
\* next to the left border, over the middle of the arena or next to the right
\* border, just below the top of the arena or just above the ground, flying
\* left or right, up or down, at speeds that a launch (at most 25 a tick)
\* gives, with the whole fuse or the last updates of it left.
BounceWinds == {-10, 0, 10}
BounceXs == {50, 5000, 9950}
BounceVxs == {-250, 88, 250}
BounceVys == {-250, 100}
BounceFuses == {2, 180}

InitBounce ==
  /\ impl \in Impls
  /\ terrain = GenerateTerrain(0)
  /\ characters = [i \in 0 .. 5 |->
                     NewCharacter(SpawnTeam[i], SpawnX[i] * Scale, GenerateTerrain(0))]
  /\ currentPlayer = 0
  /\ currentTeam = "vegan"
  /\ wind \in BounceWinds
  /\ gamePhase = "firing"
  /\ selectedWeapon = "grenade"
  /\ power = 50
  /\ angle = 45
  /\ \E x \in BounceXs, vx \in BounceVxs, vy \in BounceVys, fuse \in BounceFuses :
       \E y \in {2 * Scale, getTerrainHeight(x, GenerateTerrain(0)) - 10 * Scale} :
         projectiles =
           <<[NewProjectile(characters[0], "grenade", vx, vy)
                EXCEPT !.x = x, !.y = y, !.fuseTime = fuse]>>
  /\ explosions = <<>>
  /\ turnTimer = -1
  /\ burstQueue = <<>>
  /\ fires = 0 /\ moves = 0 /\ lefts = 0 /\ jumps = 0 /\ calls = 0

NextBounce == callUpdateProjectiles

SpecBounce == InitBounce /\ [][NextBounce]_vars

\* =================================================================== claims
\* the living characters of a team, and the step that runs the turn-advance
\* callback
Living(team) ==
  {i \in DOMAIN characters : characters[i].health > 0 /\ characters[i].team = team}
TurnAdvanceStep == turnTimer = 0 /\ turnTimer' = -1

\* C1: in every reachable state of a match every character's health is at
\* least 0 and at most maxHealth (100).
HealthInRange ==
  \A i \in DOMAIN characters :
    characters[i].health >= 0 /\ characters[i].health <= 100

\* the actor, alive when its turn began, has been killed by its own shot
HealthInRangeWitness ==
  /\ gamePhase = "firing"
  /\ fires > 0
  /\ characters[currentPlayer].health = 0

\* C2: when the turn-advance callback runs and exactly one team has no living
\* character, the phase becomes gameOver and currentTeam becomes the team that
\* still has a living character.
VictoryRecorded ==
  [][TurnAdvanceStep =>
       /\ (Living("vegan") = {} /\ Living("meatLover") # {})
            => (gamePhase' = "gameOver" /\ currentTeam' = "meatLover")
       /\ (Living("meatLover") = {} /\ Living("vegan") # {})
            => (gamePhase' = "gameOver" /\ currentTeam' = "vegan")]_vars

\* the match is over, won by the vegans, after a meat lover's turn
VictoryRecordedWitness ==
  /\ gamePhase = "gameOver"
  /\ currentTeam = "vegan"
  /\ characters[currentPlayer].team = "meatLover"
  /\ Living("meatLover") = {}
  /\ Living("vegan") # {}

\* the index reached from the previous actor by skipping dead characters
FirstLivingAfter(next) ==
  LET n == Cardinality(DOMAIN characters)
  IN \E k \in 1 .. n :
       /\ next = (currentPlayer + k) % n
       /\ characters[next].health > 0
       /\ \A j \in 1 .. (k - 1) : characters[(currentPlayer + j) % n].health <= 0

OnePerTeam == Cardinality(Living("vegan")) = 1 /\ Cardinality(Living("meatLover")) = 1

\* C3 as stated: when the turn-advance callback runs with a living character on
\* each team, currentPlayer becomes the first living character cyclically after
\* the previous one, with movementLeft 60 and hasJumped false, and the phase is
\* movement; with exactly one living character per team the new actor is on
\* the other team than the previous actor.
TurnPassesToOtherTeam ==
  [][(TurnAdvanceStep /\ Living("vegan") # {} /\ Living("meatLover") # {}) =>
       /\ FirstLivingAfter(currentPlayer')
       /\ characters'[currentPlayer'].movementLeft = 60
       /\ ~characters'[currentPlayer'].hasJumped
       /\ gamePhase' = "movement"
       /\ OnePerTeam =>
            characters[currentPlayer'].team # characters[currentPlayer].team]_vars

\* C3, amended: the same, the new actor being on the other team when exactly
\* one character per team is alive and the previous actor is one of them.
TurnPassesToNextLiving ==
  [][(TurnAdvanceStep /\ Living("vegan") # {} /\ Living("meatLover") # {}) =>
       /\ FirstLivingAfter(currentPlayer')
       /\ characters'[currentPlayer'].movementLeft = 60
       /\ ~characters'[currentPlayer'].hasJumped
       /\ gamePhase' = "movement"
       /\ (OnePerTeam /\ characters[currentPlayer].health > 0) =>
            characters[currentPlayer'].team # characters[currentPlayer].team]_vars

\* the turn has passed over a dead character to a living one of the other team
TurnPassesWitness ==
  /\ gamePhase = "movement"
  /\ fires > 0
  /\ turnTimer = -1
  /\ OnePerTeam
  /\ characters[currentPlayer].health > 0
  /\ characters[(currentPlayer + 5) % 6].health = 0

PhaseEdges ==
  {<<"setup", "movement">>, <<"movement", "aiming">>, <<"aiming", "firing">>,
   <<"firing", "movement">>, <<"firing", "gameOver">>}

\* C4 as stated: every phase change follows setup->movement, movement->aiming,
\* aiming->firing, firing->movement or firing->gameOver, and an endMovement
\* command issued outside the movement phase changes nothing.
PhaseFollowsEdges ==
  [][/\ gamePhase' # gamePhase => <<gamePhase, gamePhase'>> \in PhaseEdges
     /\ (endMovementPhase /\ gamePhase # "movement") => UNCHANGED vars]_vars

\* C4, amended: every phase change follows one of these five edges or is the
\* change gameOver->movement made by initializeGame (Play Again), and an
\* endMovement command issued outside the movement phase changes nothing.
PhaseFollowsEdgesOrReset ==
  [][/\ gamePhase' # gamePhase =>
          \/ <<gamePhase, gamePhase'>> \in PhaseEdges
          \/ (gamePhase = "gameOver" /\ gamePhase' = "movement" /\ initializeGame)
     /\ (endMovementPhase /\ gamePhase # "movement") => UNCHANGED vars]_vars

\* a new match started from the victory screen: the actor and the recorded
\* team are still those of the finished match
PhaseFollowsEdgesWitness ==
  /\ gamePhase = "movement"
  /\ fires > 0
  /\ HasCurrentChar
  /\ characters[currentPlayer].team # currentTeam
  /\ \A i \in DOMAIN characters : characters[i].health = 100

\* C5: once the phase is gameOver it stays gameOver under every tick, command
\* and timer callback; only initializeGame (Play Again) leaves it.
GameOverIsStable ==
  [][gamePhase = "gameOver" => (gamePhase' = "gameOver" \/ initializeGame)]_vars

\* a weapon has been selected on the victory screen (every kill of the match
\* was made with the dynamite)
GameOverIsStableWitness ==
  /\ gamePhase = "gameOver"
  /\ selectedWeapon = "grenade"
  /\ Living("vegan") = {}

\* C6: a move when the phase is not movement or the actor has no movementLeft,
\* a jump when the phase is not movement or the actor has jumped or is not
\* grounded, and a fire when the phase is not aiming change nothing, timers
\* included.
InvalidCommandsIgnored ==
  [][/\ \A d \in {"left", "right"} :
          (moveCharacter(d) /\ (gamePhase # "movement" \/ CurrentChar.movementLeft <= 0))
            => UNCHANGED vars
     /\ (jumpCharacter /\ (gamePhase # "movement" \/ CurrentChar.hasJumped
                             \/ ~CurrentChar.isGrounded))
          => UNCHANGED vars
     /\ (fireWeapon /\ gamePhase # "aiming") => UNCHANGED vars]_vars

\* the actor has used its whole movement budget and its jump
InvalidCommandsIgnoredWitness ==
  /\ gamePhase = "movement"
  /\ CurrentChar.movementLeft = 0
  /\ CurrentChar.hasJumped
  /\ CurrentChar.isGrounded

\* C7: in both implementations every call of destroyTerrain leaves the number
\* of samples unchanged and every sample at least as large as before.
ErosionIsMonotone ==
  [][calls' = calls + 1 =>
       /\ DOMAIN terrain' = DOMAIN terrain
       /\ \A i \in DOMAIN terrain : terrain'[i] >= terrain[i]]_vars

\* part_000 has eroded a column down to the arena floor
ErosionIsMonotoneWitness ==
  /\ impl = "burst"
  /\ calls > 0
  /\ \E i \in DOMAIN terrain : terrain[i] = 500 * Scale /\ GenerateTerrain(0)[i] < 4000

\* C8 as stated: in GameArena.tsx, from a terrain with every sample <= 500,
\* every sample is <= 500 after any destroyTerrain call.
ArenaErosionStaysAboveFloor ==
  impl = "arena" => \A i \in DOMAIN terrain : terrain[i] <= 500 * Scale

\* k is Math.floor(D * (1 - d / R)) for a distance d < R of square d2 (squared
\* tenths): k <= D * (1 - d / R) < k + 1, compared by squares
IsFalloff(k, d2, D, R) ==
  /\ D * D * d2 <= R * R * Scale * Scale * (D - k) * (D - k)
  /\ k < D => D * D * d2 > R * R * Scale * Scale * (D - k - 1) * (D - k - 1)

Falloff(d2, D, R) ==
  IF d2 >= R * R * Scale * Scale THEN 0
  ELSE CHOOSE k \in 0 .. D : IsFalloff(k, d2, D, R)

\* C9 as stated: a detonation of base damage D and radius R removes
\* floor(D * (1 - d / R)) health from a living character at distance d < R and
\* nothing at d >= R; that is D at d = 0 and non-increasing in d; dead
\* characters are not changed.
BlastRemovesFalloff ==
  [][\A dx \in BlastOffsets, w \in WeaponIds :
       callApplyDamage(characters[0].x + dx, characters[0].y, w) =>
         LET D == Weapons[w].damage
             R == Weapons[w].explosionRadius
             d2(i) == Dist2(characters[i].x, characters[i].y,
                            characters[0].x + dx, characters[0].y)
         IN \A i \in DOMAIN characters :
              /\ characters[i].health = 0 => characters'[i] = characters[i]
              /\ characters[i].health > 0 =>
                   characters[i].health - characters'[i].health = Falloff(d2(i), D, R)
              /\ d2(i) = 0 => Falloff(d2(i), D, R) = D
              /\ \A j \in DOMAIN characters :
                   d2(i) <= d2(j) => Falloff(d2(i), D, R) >= Falloff(d2(j), D, R)]_vars

\* C9, amended: the detonation leaves a living character at distance d with
\* max(0, health - floor(D * (1 - d / R))) for d < R and with its health for
\* d >= R; the amount is D at d = 0 and non-increasing in d; dead characters
\* are not changed.
BlastRemovesFalloffDownToZero ==
  [][\A dx \in BlastOffsets, w \in WeaponIds :
       callApplyDamage(characters[0].x + dx, characters[0].y, w) =>
         LET D == Weapons[w].damage
             R == Weapons[w].explosionRadius
             d2(i) == Dist2(characters[i].x, characters[i].y,
                            characters[0].x + dx, characters[0].y)
         IN \A i \in DOMAIN characters :
              /\ characters[i].health = 0 => characters'[i] = characters[i]
              /\ characters[i].health > 0 =>
                   /\ characters'[i].health =
                        Max(0, characters[i].health - Falloff(d2(i), D, R))
                   /\ characters'[i] = [characters[i] EXCEPT
                                          !.health = characters'[i].health]
              /\ d2(i) = 0 => Falloff(d2(i), D, R) = D
              /\ \A j \in DOMAIN characters :
                   d2(i) <= d2(j) => Falloff(d2(i), D, R) >= Falloff(d2(j), D, R)]_vars

\* characters 0 and 1 have both been wounded, neither of them killed
BlastWitness ==
  /\ calls > 0
  /\ characters[0].health \in (1 .. 99) \ BlastHealths
  /\ characters[1].health \in (1 .. 99) \ BlastHealths

\* C10: a living character in the air that lands with accumulated fall distance
\* F loses min(floor(max(0, F - 50) / 10), 80) health, its health staying at 0
\* at least: nothing for F = 50, 1 for F = 60, 80 for F >= 850.
FallDamageLaw ==
  [][calls' = calls + 1 =>
       \A i \in DOMAIN characters :
         LET char == characters[i]
             groundLevel == getTerrainHeight(char.x, terrain) - 20 * Scale
             F == char.fallDistance + Abs(char.vy + 8)
             removed == Min(Max(0, F - 500) \div 100, 80)
         IN (char.health > 0 /\ char.y < groundLevel /\ characters'[i].isGrounded) =>
              /\ characters'[i].health = Max(0, char.health - removed)
              /\ F = 500 => removed = 0
              /\ F = 600 => removed = 1
              /\ F >= 8500 => removed = 80]_vars

\* character 0 has landed from a fall of 850 or more with 100 health
FallDamageWitness ==
  /\ calls > 0
  /\ characters[0].isGrounded
  /\ characters[0].health = 20
\* ---------------------------------------------------------------- grenades
\* A step of GameArena.tsx that updates the one grenade in flight.  The turn
\* timer is set to 180 by the fire that launches it and loses one per interval
\* tick, so the update taken with turnTimer = n is update 181 - n of the grenade.
ArenaGrenadeTick ==
  /\ impl = "arena"
  /\ Len(projectiles) = 1
  /\ projectiles[1].type = "grenade"
  /\ projectiles' # projectiles

\* where the grenade is after the move and the bounces of this update
GrenadeAfterMove == GrenadeBounce(GrenadeMove(projectiles[1], wind), terrain)

HealthAfterBlast(x, y, type) ==
  [i \in DOMAIN characters |->
     applyDamage(characters, x, y, WeaponDamage(type), WeaponRadius(type))[i].health]

\* C11: in GameArena.tsx a grenade (fuse 180) is left in flight, without
\* explosion or erosion, by each of its first 179 updates, whatever it bounces
\* on, and its 180th update detonates it where that update has moved it: the
\* explosion is created there, the terrain is eroded there, the blast damage is
\* applied from there, and the grenade is removed.
GrenadeDetonatesOnTick180 ==
  [][ArenaGrenadeTick =>
       /\ projectiles[1].fuseTime = turnTimer
       /\ turnTimer \in 1 .. WeaponFuse("grenade")
       /\ IF turnTimer = 1
            THEN /\ projectiles' = <<>>
                 /\ explosions' =
                      AgeExplosions(Append(explosions,
                                           createExplosion("arena", GrenadeAfterMove.x,
                                                           GrenadeAfterMove.y, "grenade")))
                 /\ terrain' = destroyTerrain("arena", terrain, GrenadeAfterMove.x,
                                              GrenadeAfterMove.y,
                                              WeaponRadius("grenade"), "grenade")
                 /\ \A i \in DOMAIN characters :
                      characters'[i].health <=
                        HealthAfterBlast(GrenadeAfterMove.x, GrenadeAfterMove.y,
                                         "grenade")[i]
            ELSE /\ Len(projectiles') = 1
                 /\ projectiles'[1].active
                 /\ projectiles'[1].fuseTime = projectiles[1].fuseTime - 1
                 /\ explosions' = AgeExplosions(explosions)
                 /\ terrain' = terrain
                 /\ \A i \in DOMAIN characters :
                      characters'[i].health <= characters[i].health
                 ]_vars

\* a grenade of GameArena.tsx has detonated on its 180th update: the turn-advance
\* is now due and the explosion is where the grenade bounced last
GrenadeDetonatesOnTick180Witness ==
  /\ impl = "arena"
  /\ selectedWeapon = "grenade"
  /\ gamePhase = "firing"
  /\ turnTimer = 0
  /\ projectiles = <<>>
  /\ Len(explosions) > 0
  /\ explosions[Len(explosions)].life = 29

\* ---------------------------------------------------- the turn-advance delay
\* C12: when the turn-advance evaluation runs (180 ticks after the fire, 240
\* after an uzi fire of part_000) every projectile of that fire has been
\* deactivated and removed and no deferred spawn is pending, so that no
\* projectile is in flight when the phase returns to movement.
NoProjectileAtTurnAdvance ==
  [][TurnAdvanceStep => projectiles = <<>> /\ burstQueue = <<>>]_vars

\* ------------------------------------------------- one update of a projectile
\* a call of updateProjectiles on the one projectile in flight
ProjectileUpdate == calls' = calls + 1 /\ Len(projectiles) = 1

HealthUnchanged ==
  \A i \in DOMAIN characters : characters'[i].health = characters[i].health

\* C13: the remaining fuse of a dynamite projectile (300 at launch) decreases by
\* one in every update, so that the dynamite is over 300 updates after its
\* launch at the latest, collision or not: an update either removes the dynamite
\* or leaves it with one tick less, and it removes it when no tick is left.
DynamiteFuseCountsDown ==
  [][ProjectileUpdate /\ projectiles[1].type = "dynamite" =>
       \/ projectiles' = <<>>
       \/ /\ Len(projectiles') = 1
          /\ projectiles'[1].fuseTime = projectiles[1].fuseTime - 1
          /\ projectiles'[1].fuseTime > 0]_vars

\* the projectile is beyond the extended bounds after this update, whether its
\* position advances by the old or by the updated velocity
BeyondExtendedBounds(x, y) ==
  x < -50 * Scale \/ x > 1050 * Scale \/ y > 550 * Scale

LeavesExtendedBounds ==
  /\ BeyondExtendedBounds(projectiles[1].x + projectiles[1].vx,
                          projectiles[1].y + projectiles[1].vy)
  /\ BeyondExtendedBounds(projectiles[1].x + projectiles[1].vx + WindAccel(wind),
                          projectiles[1].y + projectiles[1].vy + 5)

PositionAdvancesByNewVelocity ==
  [][ProjectileUpdate /\ projectiles[1].type # "grenade" /\ Len(projectiles') = 1 =>
       /\ projectiles'[1].vx = projectiles[1].vx + WindAccel(wind)
       /\ projectiles'[1].vy = projectiles[1].vy + 5
       /\ projectiles'[1].x = projectiles[1].x + projectiles'[1].vx
       /\ projectiles'[1].y = projectiles[1].y + projectiles'[1].vy]_vars

\* C20: a grenade is ended by its fuse only.  An update that leaves it a
\* positive fuse keeps it active and in flight, with no explosion, no erosion and
\* no damage, even when the update has put it on the ground, within reach of a
\* living character or against the arena border; so an update removes a
\* grenade only when it finds at most one tick of fuse left.
GrenadeEndsByFuseOnly ==
  [][ProjectileUpdate /\ projectiles[1].type = "grenade"
       /\ projectiles[1].fuseTime >= 2 =>
         /\ Len(projectiles') = 1
         /\ projectiles'[1].active
         /\ projectiles'[1].type = "grenade"
         /\ projectiles'[1].fuseTime = projectiles[1].fuseTime - 1
         /\ explosions' = AgeExplosions(explosions)
         /\ terrain' = terrain
         /\ HealthUnchanged]_vars

\* a grenade that an update has put on the ground (5 above the terrain), less
\* than 20 from a living character, is still in flight with fuse left
GrenadeEndsByFuseOnlyWitness ==
  /\ calls > 0
  /\ Len(projectiles) = 1
  /\ projectiles[1].type = "grenade"
  /\ projectiles[1].active
  /\ projectiles[1].fuseTime > 0
  /\ projectiles[1].y = getTerrainHeight(projectiles[1].x, terrain) - 5 * Scale
  /\ \E i \in DOMAIN characters :
       /\ characters[i].health > 0
       /\ Dist2(projectiles[1].x, projectiles[1].y, characters[i].x, characters[i].y)
            < 20 * 20 * Scale * Scale
  /\ explosions = <<>>

\* ------------------------------------------------------------ the uzi burst
\* an accepted fire of part_000 with the uzi selected
UziFireStep == impl = "burst" /\ selectedWeapon = "uzi" /\ fires' = fires + 1

\* C15: in part_000 an accepted uzi fire adds exactly 5 uzi projectiles, one per
\* deferred spawn (0, 80, 160, 240 and 320 ms after the fire), all of them
\* before the turn-advance evaluation of that fire (4000 ms).  The fire itself
\* adds no projectile and schedules the five spawns and the evaluation; a
\* projectile is added by a spawn only, which adds one uzi round and is then
\* spent; the evaluation finds no spawn pending.
UziBurstAddsFive ==
  [][impl = "burst" =>
       /\ UziFireStep =>
            /\ projectiles' = projectiles
            /\ Len(burstQueue') = 5
            /\ \A i \in 1 .. 5 :
                 /\ burstQueue'[i].due = TicksOf((i - 1) * 80)
                 /\ burstQueue'[i].due < turnTimer'
                 /\ burstQueue'[i].proj.type = "uzi"
            /\ turnTimer' = TicksOf(4000)
       /\ (selectedWeapon = "uzi" /\ Len(projectiles') > Len(projectiles)) =>
            /\ Len(burstQueue') = Len(burstQueue) - 1
            /\ projectiles' = Append(projectiles, burstQueue[1].proj)
            /\ projectiles'[Len(projectiles')].type = "uzi"
            /\ turnTimer > 0
       /\ Len(burstQueue') < Len(burstQueue) =>
            /\ Len(burstQueue') = Len(burstQueue) - 1
            /\ Len(projectiles') = Len(projectiles) + 1
       /\ (Len(burstQueue') > Len(burstQueue)) => (UziFireStep /\ burstQueue = <<>>)
       /\ TurnAdvanceStep => burstQueue = <<>>]_vars

\* the turn-advance of an uzi fire of part_000 is due: the five spawns are spent
\* and every round has ended
UziBurstAddsFiveWitness ==
  /\ impl = "burst"
  /\ selectedWeapon = "uzi"
  /\ gamePhase = "firing"
  /\ fires > 0
  /\ turnTimer = 0
  /\ burstQueue = <<>>
  /\ Len(explosions) > 0

\* ------------------------------------------------------- dead characters
\* the step of initializeGame, which replaces every character
ResetStep == gamePhase \in {"setup", "gameOver"} /\ gamePhase' = "movement"

\* an accepted fire: it launches a projectile from the current character
AcceptedFireStep == fires' = fires + 1

\* C16: a character whose health is 0 is inert until the match is reset: no
\* step other than the reset changes its x, y or health (so no move or jump
\* command displaces it), and no accepted fire launches a projectile from it.
DeadCharacterIsInert ==
  [][~ResetStep =>
       /\ \A i \in DOMAIN characters :
            characters[i].health = 0 =>
              /\ characters'[i].x = characters[i].x
              /\ characters'[i].y = characters[i].y
              /\ characters'[i].health = 0
       /\ AcceptedFireStep => characters[currentPlayer].health > 0]_vars

\* --------------------------------------------------------------- explosions
\* the timers have nothing left to do: no timeout is pending and a tick of
\* gameLoop changes nothing, so that the state stays as it is until a command
TimersIdle ==
  /\ turnTimer < 0
  /\ burstQueue = <<>>
  /\ gameLoopState(impl, CurrentState, gamePhase) = CurrentState

\* C17: every explosion is eventually removed (its particles age out and the
\* explosion is dropped) by the timers alone, with no further fire command:
\* when the timers have nothing left to do, no explosion is left.
ExplosionsGoneWhenTimersIdle == TimersIdle => explosions = <<>>

\* ------------------------------------------------------------------- jumps
\* the current character has jumped and is not grounded
Airborne ==
  /\ HasCurrentChar
  /\ CurrentChar.hasJumped
  /\ ~CurrentChar.isGrounded

\* the current character stands on the terrain, at rest and unhurt
Landed ==
  /\ HasCurrentChar
  /\ CurrentChar.isGrounded
  /\ CurrentChar.y = getTerrainHeight(CurrentChar.x, terrain) - 20 * Scale
  /\ CurrentChar.vy = 0
  /\ CurrentChar.fallDistance = 0
  /\ CurrentChar.health = MaxHealth

\* C18: after an accepted jump from ground level on un-eroded terrain the
\* character (unhurt here, health 100) is eventually grounded again with
\* y = heightAt(x) - 20, vy = 0, fallDistance = 0 and its health unchanged.
JumpLands == Airborne ~> Landed

\* the current character has just jumped from ground level: it is in the air
\* of the model with the jump's vy of -12, still at y = heightAt(x) - 20
JumpLandsWitness ==
  /\ Airborne
  /\ CurrentChar.vy = -12 * Scale
  /\ CurrentChar.y = getTerrainHeight(CurrentChar.x, terrain) - 20 * Scale
  /\ CurrentChar.health = MaxHealth
  /\ terrain = GenerateTerrain(0)

\* ------------------------------------------------------------ team wipe-outs
\* C21: whenever the phase is gameOver, the recorded winning team (currentTeam)
\* has at least one character with health > 0, also when the last living
\* characters of both teams reach health 0 before the same turn-advance.
WinnerHasSurvivor == gamePhase = "gameOver" => Living(currentTeam) # {}

\* C22: whenever the phase is movement or aiming, each team has at least one
\* character with health > 0.
BothTeamsLiveWhileCommanding ==
  gamePhase \in {"movement", "aiming"} =>
    Living("vegan") # {} /\ Living("meatLover") # {}

\* ------------------------------------------------- simultaneous detonations
\* one call of updateProjectiles in which both projectiles in flight detonate
PairDetonation ==
  /\ calls' = calls + 1
  /\ Len(projectiles) = 2
  /\ projectiles' = <<>>
  /\ Len(explosions') = Len(explosions) + 2

\* the health of a character after the blast of explosion e of a weapon
HealthAfterExplosion(char, e, type) ==
  applyDamageChar(char, e.x, e.y, WeaponDamage(type), WeaponRadius(type))

\* C23: when two projectiles detonate in the same projectile update, no
\* detonation's damage is lost: each living character's health after the update
\* is its health before, minus the damage of the first detonation, minus the
\* damage of the second (floored at 0).
NoDetonationDamageLost ==
  [][PairDetonation =>
       \A i \in DOMAIN characters :
         characters[i].health > 0 =>
           characters'[i].health =
             HealthAfterExplosion(
               HealthAfterExplosion(characters[i],
                                    explosions'[Len(explosions) + 1],
                                    projectiles[1].type),
               explosions'[Len(explosions) + 2], projectiles[2].type).health]_vars

\* ------------------------------------------------------ gravity per iteration
\* one iteration of gameLoop that changes some character
GameLoopIteration ==
  /\ characters' # characters
  /\ gamePhase' = gamePhase
  /\ fires' = fires /\ moves' = moves /\ jumps' = jumps /\ calls' = calls

\* character i is alive and above its ground level
InTheAir(chars, terr, i) ==
  /\ chars[i].health > 0
  /\ chars[i].y < getTerrainHeight(chars[i].x, terr) - 20 * Scale

\* C24: in one iteration of the game loop each living airborne character
\* receives exactly one gravity step (vy increases by exactly 0.8 and y by the
\* new vy), also in iterations in which projectiles are being advanced; checked
\* on the characters that the iteration leaves in the air.
OneGravityStepPerIteration ==
  [][GameLoopIteration =>
       \A i \in DOMAIN characters :
         (/\ InTheAir(characters, terrain, i)
          /\ ~characters[i].isGrounded
          /\ ~characters'[i].isGrounded) =>
           /\ characters'[i].vy = characters[i].vy + 8
           /\ characters'[i].y = characters[i].y + characters'[i].vy]_vars

\* the current character has just jumped: it is in the air of the model with
\* the jump's vy of -12 and has not left its ground level yet
JustJumped ==
  /\ Airborne
  /\ CurrentChar.vy = -12 * Scale
  /\ CurrentChar.y = getTerrainHeight(CurrentChar.x, terrain) - 20 * Scale

\* C25: after an accepted jump by a grounded current actor (vy set to -12) the
\* character is at some later tick strictly above its ground level
\* (y < heightAt(x) - 20) before it is grounded again: a character that has
\* just jumped and has not been above its ground level yet is not made
\* grounded by the next step.
JumpLifts ==
  [][JustJumped => ~characters'[currentPlayer].isGrounded]_vars

\* ------------------------------------------------------------ after erosion
\* some living character is above its ground level
Undermined ==
  \E i \in DOMAIN characters : InTheAir(characters, terrain, i)

\* every living character stands on the terrain as it is now
AllLivingOnGround ==
  \A i \in DOMAIN characters :
    characters[i].health > 0 =>
      /\ characters[i].isGrounded
      /\ characters[i].y = getTerrainHeight(characters[i].x, terrain) - 20 * Scale

\* C26: after any terrain erosion every living character is eventually (the
\* interval ticking, no further erosion) grounded with y = heightAt(x) - 20 on
\* the eroded terrain; no living character stays above its ground level for
\* ever.
UnderminedCharactersLand == Undermined ~> AllLivingOnGround

\* a living character stands on ground that a detonation has lowered
UnderminedCharactersLandWitness ==
  /\ calls > 0
  /\ \E i \in DOMAIN characters :
       /\ characters[i].health > 0
       /\ characters[i].isGrounded
       /\ characters[i].y = getTerrainHeight(characters[i].x, terrain) - 20 * Scale
       /\ characters[i].y > getTerrainHeight(characters[i].x, GenerateTerrain(0))
                              - 20 * Scale

\* ------------------------------------------------------------------- reset
\* Play Again: initializeGame run from the game-over card
PlayAgainStep == gamePhase = "gameOver" /\ gamePhase' = "movement"

\* C27: after resetMatch (initializeGame invoked from gameOver) the match state
\* is that of a fresh match: six characters at health 100 on their spawn
\* positions, phase movement, no projectiles and no explosions left from the
\* previous match, currentPlayer = 0 and currentTeam the team of character 0.
ResetGivesFreshMatch ==
  [][PlayAgainStep =>
       /\ characters' = [i \in 0 .. 5 |->
                           NewCharacter(SpawnTeam[i], SpawnX[i] * Scale, terrain')]
       /\ gamePhase' = "movement"
       /\ projectiles' = <<>>
       /\ explosions' = <<>>
       /\ currentPlayer' = 0
       /\ currentTeam' = characters'[0].team]_vars

\* ------------------------------------------------------ end of the firing phase
\* the number of dead characters that the while loop of the turn-advance
\* callback steps over from index on
RECURSIVE SearchSteps(_, _)
SearchSteps(chars, index) ==
  IF chars[index].health <= 0
    THEN 1 + SearchSteps(chars, (index + 1) % Cardinality(DOMAIN chars))
    ELSE 0

\* C28: every firing phase eventually ends: an accepted fire schedules one
\* turn-advance evaluation (none is pending when the fire is accepted), the
\* evaluation runs in the firing phase, its search for the next living character
\* takes at most 6 steps, and it leaves the phase movement or gameOver, even if
\* projectiles are still active.
FiringPhaseEnds ==
  /\ (gamePhase = "firing") ~> (gamePhase \in {"movement", "gameOver"})
  /\ [][AcceptedFireStep => turnTimer < 0 /\ turnTimer' > 0]_vars
  /\ [][TurnAdvanceStep =>
          /\ gamePhase = "firing"
          /\ gamePhase' \in {"movement", "gameOver"}
          /\ gamePhase' = "movement" =>
               SearchSteps(characters,
                           (currentPlayer + 1) % Cardinality(DOMAIN characters)) <= 6]_vars

\* the turn has passed from character 0 over the dead characters 1 and 2 to
\* character 3 while the projectile of the fire is still in flight
FiringPhaseEndsWitness ==
  /\ fires > 0
  /\ gamePhase = "movement"
  /\ currentPlayer = 3
  /\ projectiles # <<>>
  /\ turnTimer < 0

\* ------------------------------------------------------------------- moves
\* an accepted move, and the x it aims at
AcceptedMoveStep == moves' = moves + 1
MoveTargetX ==
  IF lefts' = lefts + 1 THEN Max(20 * Scale, CurrentChar.x - 5 * Scale)
                        ELSE Min(980 * Scale, CurrentChar.x + 5 * Scale)

\* C29: an accepted move changes only the current actor's x (by 5 in the given
\* direction, clamped to [20, 980]), y (to heightAt(new x) - 20) and
\* movementLeft (decreased by 1, also when the clamp leaves x unchanged); every
\* other character, the terrain, projectiles, explosions, phase, wind, current
\* actor and aim are unchanged.
MoveChangesOnlyTheActor ==
  [][AcceptedMoveStep =>
       /\ characters'[currentPlayer] =
            [CurrentChar EXCEPT
               !.x = MoveTargetX,
               !.y = getTerrainHeight(MoveTargetX, terrain) - 20 * Scale,
               !.movementLeft = CurrentChar.movementLeft - 1]
       /\ \A i \in DOMAIN characters \ {currentPlayer} :
            characters'[i] = characters[i]
       /\ UNCHANGED <<terrain, projectiles, explosions, gamePhase, wind,
                      currentPlayer, currentTeam, selectedWeapon, power, angle,
                      timerVars>>]_vars

\* the actor has moved twice to the left from the left border or from one step
\* before it: the clamp has left x at 20 and both movement points are spent
MoveChangesOnlyTheActorWitness ==
  /\ HasCurrentChar
  /\ gamePhase = "movement"
  /\ CurrentChar.x = 20 * Scale
  /\ lefts = 2
  /\ moves = 2
  /\ CurrentChar.movementLeft = MovementPoints - 2

\* ------------------------------------------------- the two projectile updates
\* updateProjectiles of implementation im called on st until no projectile is
\* left: the number of the call (counted from n) after which none is left, and
\* where the last explosion was created
RECURSIVE GrenadeRun(_, _, _)
GrenadeRun(im, st, n) ==
  IF st.projectiles = <<>>
    THEN [update |-> n,
          x |-> st.explosions[Len(st.explosions)].x,
          y |-> st.explosions[Len(st.explosions)].y]
    ELSE Given(updateProjectiles(im, st), LAMBDA s : GrenadeRun(im, s, n + 1))

\* a grenade in flight on the last updates of its fuse, with a fuse that both
\* implementations can be left with
GrenadeInFlight ==
  /\ Len(projectiles) = 1
  /\ projectiles[1].type = "grenade"
  /\ projectiles[1].fuseTime \in 1 .. MaxSteps

\* C30: the two implementations of the projectile update, started with the
\* same grenade (same position, velocity and fuse), wind and terrain, detonate
\* it in the same projectile update and at the same position.
GrenadeUpdatesAgree ==
  GrenadeInFlight =>
    GrenadeRun("arena", CurrentState, 0) = GrenadeRun("burst", CurrentState, 0)

\* ---------------------------------------------------------- grenade bounds
\* C31: after every projectile update each active grenade lies inside the
\* arena and on or above the terrain surface: 0 <= x <= 1000 and
\* 0 <= y <= heightAt(x) - 5, for any wind, velocity and sequence of bounces.
GrenadeStaysInArena ==
  calls > 0 =>
    \A i \in 1 .. Len(projectiles) :
      (projectiles[i].type = "grenade" /\ projectiles[i].active) =>
        /\ 0 <= projectiles[i].x
        /\ projectiles[i].x <= 1000 * Scale
        /\ 0 <= projectiles[i].y
        /\ projectiles[i].y <= getTerrainHeight(projectiles[i].x, terrain) - 5 * Scale

\* an update has bounced the grenade off the right border, where no terrain
\* sample exists, and it is still in flight
GrenadeStaysInArenaWitness ==
  /\ calls > 0
  /\ Len(projectiles) = 1
  /\ projectiles[1].type = "grenade"
  /\ projectiles[1].active
  /\ projectiles[1].x = 1000 * Scale
  /\ projectiles[1].vx < 0

\* -------------------------------------------------------- the team in turn
\* C32: in every reachable state whose phase is movement, aiming or firing,
\* currentTeam equals the team of characters[currentPlayer], including in
\* matches started by Play Again after a previous match has ended.
CurrentTeamIsTheActorsTeam ==
  gamePhase \in {"movement", "aiming", "firing"} =>
    /\ HasCurrentChar
    /\ currentTeam = CurrentChar.team

====
